---- MODULE Spec2Model ----
(***************************************************************************)
(* Housing Resale Price Estimator (src/app.py).                            *)
(*                                                                         *)
(* The program is a Streamlit script: every user interaction (opening the  *)
(* page, changing a widget, pressing the button) runs the whole script     *)
(* from its first line to its last.  One action of this module is one      *)
(* interaction together with the script run it triggers.                   *)
(*                                                                         *)
(* Conventions                                                             *)
(*   - a Python Optional is a sequence of length 0 (None) or 1 (a value);  *)
(*   - a text is a sequence of one-character strings, so that strip(),     *)
(*     float() and int() are computed character by character;              *)
(*   - a float is [k, n, d]: k = "fin" is the rational n/d (d > 0),        *)
(*     k = "inf" is +inf (n = 1) or -inf (n = -1), k = "nan" is NaN.       *)
(*     Finite values are exact rationals: binary rounding is not modelled. *)
(*   - the texts a user types are over the alphabet Alphabet, which has    *)
(*     no exponent marker and no underscore; float() is modelled exactly   *)
(*     for every text over that alphabet.                                  *)
(***************************************************************************)
EXTENDS Integers, Sequences, FiniteSets, TLC

NoneV == <<>>
Some(x) == <<x>>
IsNone(o) == o = <<>>
Val(o) == o[1]

(***************************************************************************)
(* Floats                                                                  *)
(***************************************************************************)
Fin(n, d) == [k |-> "fin", n |-> n, d |-> d]
PosInf == [k |-> "inf", n |-> 1, d |-> 1]
NegInf == [k |-> "inf", n |-> -1, d |-> 1]
NaN == [k |-> "nan", n |-> 0, d |-> 1]
IntCell(i) == [k |-> "int", n |-> i, d |-> 1]

Abs(i) == IF i < 0 THEN -i ELSE i
Min(a, b) == IF a < b THEN a ELSE b

\* a < b for two floats, as IEEE 754 orders them: false when either is NaN.
FloatLt(a, b) ==
    CASE a.k = "nan" \/ b.k = "nan" -> FALSE
      [] a.k = "inf" /\ b.k = "inf" -> a.n < b.n
      [] a.k = "inf" -> a.n < 0
      [] b.k = "inf" -> b.n > 0
      [] OTHER -> a.n * b.d < b.n * a.d

\* int(v) for a float v: truncation toward zero; raises on inf and nan.
\* Result: [v |-> the integer, exc |-> None or the exception's class].
IntOfFloat(v) ==
    CASE v.k = "inf" -> [v |-> 0, exc |-> Some("OverflowError")]
      [] v.k = "nan" -> [v |-> 0, exc |-> Some("ValueError")]
      [] OTHER -> [v |-> IF v.n < 0 THEN -((-v.n) \div v.d) ELSE v.n \div v.d,
                   exc |-> NoneV]

\* a / b for a float column a and an integer column b (pandas, no exception).
FloatDivSwapped(a, b) ==
    CASE a.k = "nan" -> NaN
      [] a.k = "inf" -> a
      [] a.n = 0 -> PosInf
      [] OTHER -> Fin(b * a.d, a.n)

FloatDiv(a, b) ==
    CASE a.k = "nan" -> NaN
      [] a.k = "inf" -> IF b < 0 THEN [a EXCEPT !.n = -a.n] ELSE a
      [] b = 0 -> IF a.n = 0 THEN NaN ELSE IF a.n > 0 THEN PosInf ELSE NegInf
      [] b < 0 -> Fin(-a.n, a.d * (-b))
      [] OTHER -> Fin(a.n, a.d * b)

(***************************************************************************)
(* Texts: str.strip(), float(str)                                          *)
(***************************************************************************)
Digits == <<"0", "1", "2", "3", "4", "5", "6", "7", "8", "9">>
DigitSet == {Digits[i] : i \in 1..10}
Alphabet == DigitSet \cup {" ", ".", "-", "+", "a", "b", "c", "f", "i", "n"}

IsSpace(c) == c = " "
IsDigit(c) == c \in DigitSet
DigitVal(c) == (CHOOSE i \in 1..10 : Digits[i] = c) - 1

RECURSIVE LStrip(_)
LStrip(s) == IF s # <<>> /\ IsSpace(Head(s)) THEN LStrip(Tail(s)) ELSE s

RECURSIVE RStrip(_)
RStrip(s) ==
    IF s # <<>> /\ IsSpace(s[Len(s)]) THEN RStrip(SubSeq(s, 1, Len(s) - 1)) ELSE s

Strip(s) == RStrip(LStrip(s))

AllDigits(s) == \A i \in 1..Len(s) : IsDigit(s[i])

RECURSIVE DigitsValue(_)
DigitsValue(s) ==
    IF s = <<>> THEN 0
    ELSE DigitsValue(SubSeq(s, 1, Len(s) - 1)) * 10 + DigitVal(s[Len(s)])

RECURSIVE Pow10(_)
Pow10(e) == IF e = 0 THEN 1 ELSE 10 * Pow10(e - 1)

\* The unsigned decimal literals float() accepts are digits, digits "." digits?
\* and "." digits.  Each of the next three is None when the text is not one.
WholeLiteral(s) ==
    IF s # <<>> /\ AllDigits(s) THEN Some(Fin(DigitsValue(s), 1)) ELSE NoneV

PointLiteral(ip, fp) ==
    IF AllDigits(ip) /\ AllDigits(fp) /\ Len(ip) + Len(fp) > 0
    THEN Some(Fin(DigitsValue(ip \o fp), Pow10(Len(fp))))
    ELSE NoneV

DecimalAt(s, dots) ==
    IF dots = {} THEN WholeLiteral(s)
    ELSE IF Cardinality(dots) > 1 THEN NoneV
    ELSE PointLiteral(SubSeq(s, 1, (CHOOSE i \in dots : TRUE) - 1),
                      SubSeq(s, (CHOOSE i \in dots : TRUE) + 1, Len(s)))

DecimalLiteral(s) == DecimalAt(s, {i \in 1..Len(s) : s[i] = "."})

\* The value of an unsigned literal: "inf", "nan" or a decimal.
Magnitude(body) ==
    CASE body = <<"i", "n", "f">> -> Some(PosInf)
      [] body = <<"n", "a", "n">> -> Some(NaN)
      [] OTHER -> DecimalLiteral(body)

HasSign(s) == s # <<>> /\ Head(s) \in {"+", "-"}
Unsigned(s) == IF HasSign(s) THEN Tail(s) ELSE s
WithSign(s, mag) ==
    IF ~IsNone(mag) /\ s # <<>> /\ Head(s) = "-"
    THEN Some([Val(mag) EXCEPT !.n = -Val(mag).n])
    ELSE mag

FloatOfStripped(s) == WithSign(s, Magnitude(Unsigned(s)))

\* float(raw): None stands for the ValueError float() raises.
PyFloat(raw) == FloatOfStripped(Strip(raw))

(***************************************************************************)
(* Formatting of the numbers that appear in messages                       *)
(***************************************************************************)
RECURSIVE NatStr(_)
NatStr(n) == IF n < 10 THEN Digits[n + 1] ELSE NatStr(n \div 10) \o Digits[(n % 10) + 1]

\* f"{i}" for an int
IntStr(i) == IF i < 0 THEN "-" \o NatStr(-i) ELSE NatStr(i)

\* f"{v}" for a finite float with at most one decimal digit (1.0 -> "1.0")
FloatStr(v) ==
    LET a == Abs(v.n)
        frac == IF v.d = 1 THEN "0" ELSE NatStr(((a * 10) \div v.d) % 10)
    IN  (IF v.n < 0 THEN "-" ELSE "") \o NatStr(a \div v.d) \o "." \o frac

(***************************************************************************)
(* Helpers (lines 90-112)                                                  *)
(***************************************************************************)
\* raw is None or raw.strip() == ""
IsBlank(raw) == Strip(raw) = <<>>

EmptyMessage(label) == label \o " cannot be empty."
WholeMessage(label) == label \o " must be a whole number."
NumberMessage(label) == label \o " must be a number."
BetweenMessage(label, min_v, max_v) ==
    label \o " must be between " \o IntStr(min_v) \o " and " \o IntStr(max_v) \o "."
AtLeastMessage(label, min_v) == label \o " must be at least " \o FloatStr(min_v) \o "."
AtMostMessage(label, max_v) == label \o " must be at most " \o FloatStr(max_v) \o "."

\* What a helper call ends in: (v, None), (None, err), or an exception that
\* leaves the helper (exc).
Returned(v) == [v |-> Some(v), err |-> NoneV, exc |-> NoneV]
Rejected(msg) == [v |-> NoneV, err |-> Some(msg), exc |-> NoneV]
Raised(cls) == [v |-> NoneV, err |-> NoneV, exc |-> Some(cls)]

\* except ValueError: the only class the helpers catch
Caught(cls) == cls = "ValueError"

\* parse_int after int(float(raw)) has been evaluated to i (lines 95-99)
IntInRange(label, i, min_v, max_v) ==
    IF ~IsNone(i.exc)
    THEN IF Caught(Val(i.exc)) THEN Rejected(WholeMessage(label)) ELSE Raised(Val(i.exc))
    ELSE IF i.v < min_v \/ i.v > max_v
         THEN Rejected(BetweenMessage(label, min_v, max_v))
         ELSE Returned(i.v)

\* parse_int after float(raw) has been evaluated to f (lines 93-99)
IntOfParsed(label, f, min_v, max_v) ==
    IF IsNone(f) THEN Rejected(WholeMessage(label))
    ELSE IntInRange(label, IntOfFloat(Val(f)), min_v, max_v)

parse_int(label, raw, min_v, max_v) ==
    IF IsBlank(raw) THEN Rejected(EmptyMessage(label))
    ELSE IntOfParsed(label, PyFloat(raw), min_v, max_v)

\* parse_float after float(raw) has been evaluated to f (lines 104-112);
\* max_v is an Optional float (None by default)
FloatInRange(label, f, min_v, max_v) ==
    IF IsNone(f) THEN Rejected(NumberMessage(label))
    ELSE IF FloatLt(Val(f), min_v) THEN Rejected(AtLeastMessage(label, min_v))
    ELSE IF ~IsNone(max_v) /\ FloatLt(Val(max_v), Val(f))
         THEN Rejected(AtMostMessage(label, Val(max_v)))
         ELSE Returned(Val(f))

parse_float(label, raw, min_v, max_v) ==
    IF IsBlank(raw) THEN Rejected(EmptyMessage(label))
    ELSE FloatInRange(label, PyFloat(raw), min_v, max_v)

(***************************************************************************)
(* State                                                                   *)
(***************************************************************************)
VARIABLES
    artifact,      \* the file at MODEL_PATH (line 71): None, or its feature list
    loads,         \* how many times joblib.load (line 72) has run in this process
    features,      \* features (line 74) in the last run, None if the load failed
    widgets,       \* the values the six widgets hold (lines 121-159)
    predict,       \* what st.button returned in the last run (line 161)
    errors,        \* the list errors of the last run (lines 164-183)
    shown,         \* the messages st.error displayed in the last run (line 187)
    outcome,       \* where the last run ended
    new_property,  \* the frame of line 199 (before reindex), None if not built
    model_input,   \* the frame model.predict was called with (line 204), or None
    metric,        \* the text st.metric displayed (line 205), or None
    rejections     \* how many submissions so far ended in st.stop() (line 188)

vars == <<artifact, loads, features, widgets, predict, errors, shown, outcome,
          new_property, model_input, metric, rejections>>

(***************************************************************************)
(* The six checks of the validation block (lines 166-183)                  *)
(***************************************************************************)
FloorMin == 1
FloorMax == 50
AgeMin == 0
AgeMax == 1000
AreaMin == Fin(1, 1)
DistanceMin == Fin(0, 1)

Fields == <<"bedroom_count", "area", "floor", "center_distance", "metro_distance", "age">>

BedroomLabel == "Bedroom Count"
AreaLabel == "Net square meters"
FloorLabel == "Floor Level"
CenterLabel == "Distance to City Center (m)"
MetroLabel == "Distance to Metro (m)"
AgeLabel == "Property Age (years)"

\* The check of field number i of Fields on the widget values w.
Check(i, w) ==
    CASE i = 1 -> IF IsNone(w.bedroom_count) THEN Rejected(EmptyMessage(BedroomLabel))
                  ELSE Returned(Val(w.bedroom_count))
      [] i = 2 -> parse_float(AreaLabel, w.area_raw, AreaMin, NoneV)
      [] i = 3 -> parse_int(FloorLabel, w.floor_raw, FloorMin, FloorMax)
      [] i = 4 -> parse_float(CenterLabel, w.center_raw, DistanceMin, NoneV)
      [] i = 5 -> parse_float(MetroLabel, w.metro_raw, DistanceMin, NoneV)
      [] OTHER -> parse_int(AgeLabel, w.age_raw, AgeMin, AgeMax)

\* errors = [] (line 164)
ErrorsKept == errors

InitialErrors == <<>>

\* if err: errors.append(err)
AppendIfErr(errs, r) == IF IsNone(r.err) THEN errs ELSE Append(errs, Val(r.err))

\* The checks run in order 1..6, each appending its message to errors; an
\* exception leaving check i ends the run there.  acc is [errors, exc, vals],
\* vals the values of the checks done.
RECURSIVE RunChecks(_, _, _)
AfterCheck(i, w, acc, r) ==
    IF ~IsNone(r.exc) THEN [acc EXCEPT !.exc = r.exc]
    ELSE RunChecks(i + 1, w, [acc EXCEPT !.errors = AppendIfErr(acc.errors, r),
                                         !.vals = Append(acc.vals, r.v)])

RunChecks(i, w, acc) ==
    IF i > Len(Fields) THEN acc ELSE AfterCheck(i, w, acc, Check(i, w))

Validate(w) == RunChecks(1, w, [errors |-> InitialErrors, exc |-> NoneV, vals |-> <<>>])

\* if errors: ... st.stop()  (line 185)
StopsNever(errs) == FALSE

StopsOnErrors(errs) == errs # <<>>

(***************************************************************************)
(* Feature assembly and prediction (lines 190-205)                         *)
(***************************************************************************)
\* A DataFrame of one row: a sequence of <<column name, cell>> in column order.
Columns(df) == {df[i][1] : i \in 1..Len(df)}
Cell(df, name) == df[CHOOSE i \in 1..Len(df) : df[i][1] = name][2]

\* pd.DataFrame([{...}]) (lines 190-197); vals are the six checks' values.
\* int(None) and float(None) raise TypeError: the result is then None.
NewProperty(vals) ==
    IF \E i \in 1..Len(vals) : IsNone(vals[i]) THEN NoneV
    ELSE Some(<< <<"bedroom_count", IntCell(Val(vals[1]))>>,
                 <<"net_sqm", Val(vals[2])>>,
                 <<"center_distance", Val(vals[4])>>,
                 <<"metro_distance", Val(vals[5])>>,
                 <<"floor", IntCell(Val(vals[3]))>>,
                 <<"age", IntCell(Val(vals[6]))>> >>)

\* new_property["sqm_per_bedroom"] = net_sqm / bedroom_count (line 199)
WithDerived(df) ==
    Append(df, <<"sqm_per_bedroom",
                 FloatDiv(Cell(df, "net_sqm"), Cell(df, "bedroom_count").n)>>)

\* df.reindex(columns=cols): the columns named, in that order; a column df
\* does not have is filled with NaN.
Reindex(df, cols) ==
    [i \in 1..Len(cols) |->
        <<cols[i], IF cols[i] \in Columns(df) THEN Cell(df, cols[i]) ELSE NaN>>]

RECURSIVE GroupThousands(_)
GroupThousands(n) ==
    IF n < 1000 THEN NatStr(n)
    ELSE LET r == n % 1000
         IN  GroupThousands(n \div 1000) \o ","
             \o (IF r < 10 THEN "00" ELSE IF r < 100 THEN "0" ELSE "") \o NatStr(r)

\* f"{pred:,.2f}" for a finite pred with at most two decimal digits
FormatMetric(v) ==
    LET whole == Abs(v.n) \div v.d
        c == ((Abs(v.n) % v.d) * 100) \div v.d
    IN  (IF v.n < 0 THEN "-" ELSE "") \o GroupThousands(whole) \o "."
        \o (IF c < 10 THEN "0" ELSE "") \o NatStr(c)

(***************************************************************************)
(* What the environment supplies                                           *)
(***************************************************************************)
\* The feature lists house_price_lr_fe.joblib may hold: the seven columns the
\* script builds, and a shorter list in another order that also names a column
\* the script does not build.
Manifests ==
    { <<"bedroom_count", "net_sqm", "center_distance", "metro_distance", "floor",
        "age", "sqm_per_bedroom">>,
      <<"sqm_per_bedroom", "net_sqm", "garden_sqm">> }

\* The file on disk: None when it is missing or corrupt.
Artifacts == {NoneV} \cup {Some(m) : m \in Manifests}

\* model.predict is opaque: any of these may be what it returns.
ModelOutputs == {Fin(123456789, 100), Fin(5, 10)}

\* bedroom_options = list(range(1, 21)) (line 120); the options a user picks here
BedroomMin == 1
BedroomMax == 20
BedroomOptions == BedroomMin..BedroomMax
BedroomPicks == {3, 20}

\* The texts a user types into each text field.
AreaTexts == { <<>>, <<" ">>, <<"n","a","n">>, <<"0",".","5">>, <<"9","0">> }
FloorTexts == { <<>>, <<"1","2",".","7">>, <<" ","1","2",".","0">>, <<"i","n","f">>,
                <<"5","1">> }
CenterTexts == { <<>>, <<"-","1">>, <<"0">> }
MetroTexts == { <<>>, <<"a","b","c">>, <<"2","5","0">> }
AgeTexts == { <<>>, <<"1","2",".","7">>, <<"1","2",".","0">>, <<"1","0","0","1">>,
              <<"n","a","n">> }

TextFields == {"area_raw", "floor_raw", "center_raw", "metro_raw", "age_raw"}
TextsOf(field) ==
    CASE field = "area_raw" -> AreaTexts
      [] field = "floor_raw" -> FloorTexts
      [] field = "center_raw" -> CenterTexts
      [] field = "metro_raw" -> MetroTexts
      [] OTHER -> AgeTexts

\* index=None, value="" (lines 121-159)
DefaultWidgets ==
    [bedroom_count |-> NoneV, area_raw |-> <<>>, floor_raw |-> <<>>,
     center_raw |-> <<>>, metro_raw |-> <<>>, age_raw |-> <<>>]

\* The number of loads is counted up to MaxLoads and stays there; so is the
\* number of rejected submissions, up to MaxRejections.
MaxLoads == 3
MaxRejections == 2

Init ==
    /\ artifact \in Artifacts
    /\ loads = 0
    /\ features = NoneV
    /\ widgets = DefaultWidgets
    /\ predict = FALSE
    /\ errors = <<>>
    /\ shown = <<>>
    /\ outcome = "not_run"
    /\ new_property = NoneV
    /\ model_input = NoneV
    /\ metric = NoneV
    /\ rejections = 0

\* How a run ends: what it leaves in errors, on the page and in the frames.
Ends(how, errs, displayed, df, x, m) ==
    /\ outcome' = how
    /\ errors' = errs
    /\ shown' = displayed
    /\ new_property' = df
    /\ model_input' = x
    /\ metric' = m
    /\ rejections' = IF how = "errors" THEN Min(rejections + 1, MaxRejections)
                     ELSE rejections

\* Lines 190-205, with the frame of line 199 in df
Predict(errs, df, out) ==
    Ends("predicted", errs, <<>>, Some(df), Some(Reindex(df, Val(artifact))),
         Some(FormatMetric(out)))

\* Lines 190-205, with df what line 190 built
Assemble(errs, df, out) ==
    IF IsNone(df) THEN Ends("exception", errs, <<>>, NoneV, NoneV, NoneV)
    ELSE Predict(errs, WithDerived(Val(df)), out)

\* Lines 185-205, with r what the validation block ended in
Submission(r, out) ==
    IF ~IsNone(r.exc)
    THEN \* an exception leaves parse_int: the run ends with none of the rest
         Ends("exception", r.errors, <<>>, NoneV, NoneV, NoneV)
    ELSE IF StopsOnErrors(r.errors)
    THEN Ends("errors", r.errors, r.errors, NoneV, NoneV, NoneV)
    ELSE Assemble(r.errors, NewProperty(r.vals), out)

\* One run of the script with widget values w, the button returning clicked
\* and model.predict returning out if it is called.
ScriptRun(w, clicked, out) ==
    /\ widgets' = w
    /\ predict' = clicked
    /\ loads' = Min(loads + 1, MaxLoads)
    /\ UNCHANGED artifact
    /\ IF IsNone(artifact)
       THEN \* joblib.load raises (line 72): nothing below it runs
            /\ features' = NoneV
            /\ Ends("load_failed", <<>>, <<>>, NoneV, NoneV, NoneV)
       ELSE /\ features' = artifact
            /\ IF ~clicked
               THEN Ends("form", <<>>, <<>>, NoneV, NoneV, NoneV)
               ELSE Submission(Validate(w), out)

\* The out of a run in which the button was not pressed: predict is not called.
NotCalled == NaN

\* The widgets are on the page once a run has passed line 161.
FormOnPage == outcome \in {"form", "exception", "errors", "predicted"}

\* The page is opened or reloaded in the browser: a new session, default widgets.
OpenPage == ScriptRun(DefaultWidgets, FALSE, NotCalled)

\* The user picks or clears the bedroom count.
SelectBedroom ==
    /\ FormOnPage
    /\ \E b \in {NoneV} \cup {Some(n) : n \in BedroomPicks} :
          /\ b # widgets.bedroom_count
          /\ ScriptRun([widgets EXCEPT !.bedroom_count = b], FALSE, NotCalled)

\* The user changes the text of one text field.
EditText ==
    /\ FormOnPage
    /\ \E f \in TextFields : \E t \in TextsOf(f) :
          /\ t # widgets[f]
          /\ ScriptRun([widgets EXCEPT ![f] = t], FALSE, NotCalled)

\* The user presses "Predict Price".
ClickPredict ==
    /\ FormOnPage
    /\ \E out \in ModelOutputs : ScriptRun(widgets, TRUE, out)

Next == OpenPage \/ SelectBedroom \/ EditText \/ ClickPredict

Spec == Init /\ [][Next]_vars

(***************************************************************************)
(* Properties.  The state after an action is the state the script run left,*)
(* so "the submission" below is the last run with the button pressed, and  *)
(* widgets holds the six raw values it was given.                          *)
(***************************************************************************)
FieldIndex == 1..Len(Fields)

Label(i) ==
    CASE i = 1 -> BedroomLabel [] i = 2 -> AreaLabel [] i = 3 -> FloorLabel
      [] i = 4 -> CenterLabel [] i = 5 -> MetroLabel [] OTHER -> AgeLabel

Raw(i) ==
    CASE i = 2 -> widgets.area_raw [] i = 3 -> widgets.floor_raw
      [] i = 4 -> widgets.center_raw [] i = 5 -> widgets.metro_raw
      [] OTHER -> widgets.age_raw

\* Field i of the submission is empty or missing.
FieldEmpty(i) == IF i = 1 THEN IsNone(widgets.bedroom_count) ELSE IsBlank(Raw(i))

\* Field i of the submission fails its check with a message.
FieldFails(i) == ~IsNone(Check(i, widgets).err)

\* Field i of the submission passes its check.
FieldPasses(i) == ~IsNone(Check(i, widgets).v)

ShownSet == {shown[k] : k \in 1..Len(shown)}
TimesShown(msg) == Cardinality({k \in 1..Len(shown) : shown[k] = msg})

\* Every message a check of field i can produce.
MessagesOfField(i) ==
    {EmptyMessage(Label(i)), WholeMessage(Label(i)), NumberMessage(Label(i)),
     BetweenMessage(Label(i), FloorMin, FloorMax), BetweenMessage(Label(i), AgeMin, AgeMax),
     AtLeastMessage(Label(i), AreaMin), AtLeastMessage(Label(i), DistanceMin)}

\* a >= b for two floats
FloatGe(a, b) == a.k # "nan" /\ b.k # "nan" /\ ~FloatLt(a, b)

\* raw is a numeric text whose value is not a whole number, such as "12.7"
Fractional(raw) ==
    /\ ~IsNone(PyFloat(raw))
    /\ Val(PyFloat(raw)).k = "fin"
    /\ Val(PyFloat(raw)).n % Val(PyFloat(raw)).d # 0

\* raw is a text of digits followed by ".0", such as "12.0"
TrailingPointZero(raw) ==
    /\ Len(Strip(raw)) > 2
    /\ SubSeq(Strip(raw), Len(Strip(raw)) - 1, Len(Strip(raw))) = <<".", "0">>
    /\ AllDigits(SubSeq(Strip(raw), 1, Len(Strip(raw)) - 2))

\* C1: every submission ends in exactly one of two outcomes: a validated
\* property with all six typed fields (and no message), or a non-empty list of
\* messages (and no validated property).
C1_ValidatedOrErrors ==
    predict =>
        \/ outcome = "predicted" /\ ~IsNone(new_property) /\ shown = <<>>
        \/ outcome = "errors" /\ IsNone(new_property) /\ shown # <<>>

C3_OneMessagePerOffendingField ==
    predict =>
        /\ \A i \in FieldIndex :
              IF FieldFails(i) THEN TimesShown(Val(Check(i, widgets).err)) = 1
              ELSE ShownSet \cap MessagesOfField(i) = {}
        /\ Len(shown) = Cardinality({i \in FieldIndex : FieldFails(i)})

\* C4: for every submission, each empty or missing field gets exactly the
\* message "<Label> cannot be empty." and no other message, and no validated
\* property is produced.
C4_EmptyFieldMessage ==
    predict =>
        \A i \in FieldIndex :
            FieldEmpty(i) =>
                /\ TimesShown(EmptyMessage(Label(i))) = 1
                /\ ShownSet \cap MessagesOfField(i) = {EmptyMessage(Label(i))}
                /\ IsNone(new_property)

\* C5: for floor and age, a numeric text that is not a whole number ("12.7")
\* is rejected with "<Label> must be a whole number.", and a text with a
\* trailing ".0" ("12.0") is accepted as that integer.
C5_WholeNumbersOnly ==
    predict =>
        \A i \in {3, 6} :
            /\ Fractional(Raw(i)) => WholeMessage(Label(i)) \in ShownSet
            /\ (TrailingPointZero(Raw(i)) /\ ~IsNone(new_property)) =>
                   Cell(Val(new_property), Fields[i]).n * Val(PyFloat(Raw(i))).d
                       = Val(PyFloat(Raw(i))).n

\* C6: whenever the record is assembled, every value lies in its range:
\* bedroom_count in 1..20, net_area >= 1.0, floor in 1..50, both distances
\* >= 0 and age in 0..1000.
C6_AssembledInRange ==
    ~IsNone(new_property) =>
        /\ Cell(Val(new_property), "bedroom_count").n \in BedroomOptions
        /\ FloatGe(Cell(Val(new_property), "net_sqm"), AreaMin)
        /\ Cell(Val(new_property), "floor").n \in FloorMin..FloorMax
        /\ FloatGe(Cell(Val(new_property), "center_distance"), DistanceMin)
        /\ FloatGe(Cell(Val(new_property), "metro_distance"), DistanceMin)
        /\ Cell(Val(new_property), "age").n \in AgeMin..AgeMax

\* C7: the artifact is loaded once in the life of the process, never again
\* for a later interaction or submission.
C7_LoadedOnce == loads <= 1

\* C8: the model is never invoked with a record in which a field the manifest
\* names has no value, i.e. names a column the assembled record does not have.
C8_NoPredictWithMissingColumn ==
    ~IsNone(model_input) =>
        \A k \in 1..Len(Val(features)) :
            Val(features)[k] \in Columns(Val(new_property))

\* q is a / b, b an integer >= 1
IsQuotient(q, a, b) ==
    CASE a.k = "fin" -> q.k = "fin" /\ q.n * a.d * b = a.n * q.d
      [] a.k = "inf" -> q = a
      [] OTHER -> q.k = "nan"

\* C9: whenever the model is invoked, bedroom_count >= 1 and the derived field
\* is net_area / bedroom_count of the submission's own values, in the frame
\* built and, when the manifest names it, in the record the model receives.
C9_DerivedIsAreaPerBedroom ==
    ~IsNone(model_input) =>
        /\ ~IsNone(widgets.bedroom_count) /\ Val(widgets.bedroom_count) >= 1
        /\ Cell(Val(new_property), "bedroom_count").n = Val(widgets.bedroom_count)
        /\ Cell(Val(new_property), "net_sqm") = Val(PyFloat(widgets.area_raw))
        /\ IsQuotient(Cell(Val(new_property), "sqm_per_bedroom"),
                      Val(PyFloat(widgets.area_raw)), Val(widgets.bedroom_count))
        /\ \A k \in 1..Len(Val(model_input)) :
              Val(model_input)[k][1] = "sqm_per_bedroom" =>
                  Val(model_input)[k][2] = Cell(Val(new_property), "sqm_per_bedroom")

\* C9 witness: the model was invoked for net_area "90" and 3 bedrooms, with
\* a derived field equal to 30.
C9_Witness ==
    /\ ~IsNone(model_input)
    /\ widgets.area_raw = <<"9", "0">> /\ widgets.bedroom_count = Some(3)
    /\ Cell(Val(new_property), "sqm_per_bedroom").n
           = 30 * Cell(Val(new_property), "sqm_per_bedroom").d
    /\ \E k \in 1..Len(Val(model_input)) : Val(model_input)[k][1] = "sqm_per_bedroom"

\* C10: whatever was submitted before, a submission whose six fields all pass
\* reaches the model and displays a price with no message, and the messages
\* shown for a submission are exactly those of its own failing fields.
C10_SubmissionsIndependent ==
    predict =>
        /\ (\A i \in FieldIndex : FieldPasses(i)) =>
               /\ outcome = "predicted"
               /\ ~IsNone(model_input) /\ ~IsNone(metric)
               /\ shown = <<>>
        /\ shown = <<>> \/ shown = Validate(widgets).errors
        /\ errors = Validate(widgets).errors
        /\ \A k \in 1..Len(shown) :
              \E i \in FieldIndex : FieldFails(i) /\ shown[k] = Val(Check(i, widgets).err)

\* C10 witness: a price is displayed for a submission made after two earlier
\* submissions were rejected.
C10_Witness ==
    /\ predict /\ outcome = "predicted" /\ ~IsNone(metric)
    /\ rejections >= 2

====
